---- MODULE Spec2Model ----
(***************************************************************************)
(* Multibeam activity detector: the scan-protocol engine.                  *)
(*                                                                         *)
(* Two programs drive the same bus protocol:                               *)
(*   src/program.c   the sequential engine (main / runAcquisition)         *)
(*   src/program2.c  the threaded engine (Generator = outputThreadFunc,    *)
(*                   Sampler = inputThreadFunc, Reporting =                *)
(*                   displayThreadFunc, and main)                          *)
(* Both share processData, the per-channel decode/latch.                   *)
(*                                                                         *)
(* A C array data[0..4] is the tuple <<data[1],..,data[5]>> here: D0..D3   *)
(* are elements 1..4 and DV is element 5.  outputData[0] (reset) and       *)
(* outputData[1] (clock) are elements 1 and 2.                             *)
(* Durations are counted in units of 5 microseconds, so that 2.5*timebase  *)
(* is a whole number; timebase itself is kept in units of 10 microseconds. *)
(***************************************************************************)
EXTENDS Integers, Sequences, FiniteSets

\* ------------------------------------------------------------ constants

NUM_TUBES == 16

PORT0_LINE_COUNT == 5

PORT1_LINE_COUNT == 2

\* The one tube that holds a fly: the bus presents an arbitrary 5-bit sample
\* while this tube is read and the idle sample for every other tube.
FlyTube == 0

Tubes == 0 .. (NUM_TUBES - 1)

Bit == {0, 1}

\* Every sample the five input lines can carry: <<D0, D1, D2, D3, DV>>.
Samples == {<<b0, b1, b2, b3, dv>> : b0 \in Bit, b1 \in Bit, b2 \in Bit,
                                     b3 \in Bit, dv \in Bit}

\* An empty tube: all lines low.
Idle == <<0, 0, 0, 0, 0>>

\* The samples the fly tube presents to the threaded engine: empty, at
\* position 1, at position 2, feeding (DV high, D0..D3 low), and DV high
\* with a data line high.
FlySamples == {Idle, <<1, 0, 0, 0, 0>>, <<0, 1, 0, 0, 0>>, <<0, 0, 0, 0, 1>>,
               <<1, 0, 0, 0, 1>>}

\* The one tube whose read the adapter may fail in the threaded engine.
FailTube == FlyTube + 1

\* Error codes an adapter call may return (DAQmxFailed: a negative status).
ErrorCodes == {-1, -2}

\* The keys the operator may type at the timebase prompt ("x": any other key).
Keys == {"1", "2", "3", "4", "x"}

VARIABLES
    \* ---- globals of both programs
    inputTask,      \* TaskHandle, 0 = none
    outputTask,     \* TaskHandle, 0 = none
    timebase,       \* in units of 10 us (0.0002f = 20)
    tubeReadings,   \* [Tubes -> [value, isEating]]
    \* ---- locals of main / runAcquisition / the threads
    error,          \* main's error
    inputData,      \* the read buffer
    outputData,     \* the write buffer <<reset, clock>>
    \* ---- sequential engine (program.c)
    pc,             \* position of the sequential program, "off" when not run
    tubeCounter,
    \* ---- threaded engine (program2.c)
    mainpc,         \* position of main, "off" when not run
    running,        \* state.running
    mutex,          \* owner of state.mutex: "free", "gen", "samp"
    resetActive,
    clockHigh,
    currentTube,
    tubeMutex,      \* owner of tubeReadings[i].mutex: "free", "samp", "disp"
    gpc, gi,        \* outputThreadFunc and its loop index i
    spc, si,        \* inputThreadFunc and its loop index i
    dpc, di,        \* displayThreadFunc and its loop index i
    \* ---- the adapter and the process, as seen from outside
    live,           \* task handles created and not yet cleared
    cleared,        \* [handle -> number of DAQmxClearTask calls on it]
    wlog,           \* the bus writes issued since the last reset-high write
    lastRead,       \* outcome of the latest bus read: "none", "ok", "failed"
    writeFailed,    \* some bus write has returned an error status
    reads,          \* [tube -> bus reads the Sampler attributed to it since
                    \*  the Generator last published a reset]
    gate,           \* the clock gate since the Sampler last passed its wait
                    \* for clock-high: "taken" by that pass, "lowered" once
                    \* the Generator has then published clock-low, "open"
                    \* once it has then published clock-high (and at start)
    stopTube,       \* the loop indices <<gi, si>> at the stop request
    exitCode        \* <<>> while the process runs, else <<main's return value>>

globals == <<inputTask, outputTask, timebase, tubeReadings>>

locals == <<error, inputData, outputData>>

seqvars == <<pc, tubeCounter>>

shared == <<running, mutex, resetActive, clockHigh, currentTube, tubeMutex>>

genvars == <<gpc, gi>>

sampvars == <<spc, si>>

dispvars == <<dpc, di>>

world == <<live, cleared, wlog, lastRead, writeFailed, reads, gate, stopTube,
           exitCode>>

vars == <<globals, locals, seqvars, mainpc, shared, genvars, sampvars, dispvars, world>>

\* ------------------------------------------------------------ helpers

InputHandle == 1

OutputHandle == 2

TimebaseOf(key) ==
    CASE key = "1" -> 1
      [] key = "2" -> 10
      [] key = "3" -> 100
      [] key = "4" -> 1000
      [] OTHER -> timebase

\* The samples the bus can present while tube t is the one being read.
BusSamples(t) == IF t = FlyTube THEN Samples ELSE {Idle}

ThrBusSamples(t) == IF t = FlyTube THEN FlySamples ELSE {Idle}

\* DAQmxWriteDigitalLines(outputTask, .., hold, .., data, ..): the write is
\* logged; a reset-high write opens a new scan cycle.
LogWrite(log, data, hold) ==
    LET w == [reset |-> data[1], clock |-> data[2], hold |-> hold]
    IN  IF data[1] = 1 THEN <<w>> ELSE Append(log, w)

\* processData with D3 left out of the position.
processDataNoD3(table, data, tubeNumber) ==
    IF data[5] = 0
    THEN [table EXCEPT ![tubeNumber] =
             [value |-> data[1] + data[2] * 2 + data[3] * 4,
              isEating |-> FALSE]]
    ELSE IF data[1] = 0 /\ data[2] = 0 /\ data[3] = 0 /\ data[4] = 0
            /\ table[tubeNumber].value = 1
         THEN [table EXCEPT ![tubeNumber].isEating = TRUE]
         ELSE table

\* processData dropping the latch whenever DV is high and the feeding
\* condition is not met.
processDataUnlatch(table, data, tubeNumber) ==
    IF data[5] = 0
    THEN [table EXCEPT ![tubeNumber] =
             [value |-> data[1] + data[2] * 2 + data[3] * 4 + data[4] * 8,
              isEating |-> FALSE]]
    ELSE IF data[1] = 0 /\ data[2] = 0 /\ data[3] = 0 /\ data[4] = 0
            /\ table[tubeNumber].value = 1
         THEN [table EXCEPT ![tubeNumber].isEating = TRUE]
         ELSE [table EXCEPT ![tubeNumber].isEating = FALSE]

\* processData testing the previous position against 0 instead of 1.
processDataFeedAtZero(table, data, tubeNumber) ==
    IF data[5] = 0
    THEN [table EXCEPT ![tubeNumber] =
             [value |-> data[1] + data[2] * 2 + data[3] * 4 + data[4] * 8,
              isEating |-> FALSE]]
    ELSE IF data[1] = 0 /\ data[2] = 0 /\ data[3] = 0 /\ data[4] = 0
            /\ table[tubeNumber].value = 0
         THEN [table EXCEPT ![tubeNumber].isEating = TRUE]
         ELSE table

\* processData setting the feeding flag from any previous position.
processDataFeedAnywhere(table, data, tubeNumber) ==
    IF data[5] = 0
    THEN [table EXCEPT ![tubeNumber] =
             [value |-> data[1] + data[2] * 2 + data[3] * 4 + data[4] * 8,
              isEating |-> FALSE]]
    ELSE IF data[1] = 0 /\ data[2] = 0 /\ data[3] = 0 /\ data[4] = 0
         THEN [table EXCEPT ![tubeNumber].isEating = TRUE]
         ELSE table

\* processData(data, tubeNumber): the new table.
processData(table, data, tubeNumber) ==
    IF data[5] = 0
    THEN [table EXCEPT ![tubeNumber] =
             [value |-> data[1] + data[2] * 2 + data[3] * 4 + data[4] * 8,
              isEating |-> FALSE]]
    ELSE IF data[1] = 0 /\ data[2] = 0 /\ data[3] = 0 /\ data[4] = 0
            /\ table[tubeNumber].value = 1
         THEN [table EXCEPT ![tubeNumber].isEating = TRUE]
         ELSE table

\* cleanup(): stop and clear each task whose handle is not 0.
Handles == {h \in {inputTask, outputTask} : h # 0}

cleanupLive == live \ Handles

cleanupCleared == [h \in {InputHandle, OutputHandle} |->
                      IF h \in Handles THEN cleared[h] + 1 ELSE cleared[h]]

\* ------------------------------------------------------------ initial states

InitCommon ==
    /\ inputTask = 0
    /\ outputTask = 0
    /\ timebase = 20
    /\ tubeReadings = [t \in Tubes |-> [value |-> 0, isEating |-> FALSE]]
    /\ error = 0
    /\ inputData = Idle
    /\ outputData = <<0, 0>>
    /\ tubeCounter = 0
    /\ running = TRUE
    /\ mutex = "free"
    /\ resetActive = FALSE
    /\ clockHigh = FALSE
    /\ currentTube = 0
    /\ tubeMutex = [t \in Tubes |-> "free"]
    /\ gpc = "unborn" /\ gi = 0
    /\ spc = "unborn" /\ si = 0
    /\ dpc = "unborn" /\ di = 0
    /\ live = {}
    /\ cleared = [h \in {InputHandle, OutputHandle} |-> 0]
    /\ wlog = <<>>
    /\ lastRead = "none"
    /\ writeFailed = FALSE
    /\ reads = [t \in Tubes |-> 0]
    /\ gate = "open"
    /\ stopTube = <<NUM_TUBES, NUM_TUBES>>
    /\ exitCode = <<>>

InitSeq == InitCommon /\ pc = "init_in_task" /\ mainpc = "off"

InitThr == InitCommon /\ pc = "off" /\ mainpc = "init_in_task"

Init == InitSeq \/ InitThr

\* ------------------------------------------------------------ program.c

thrvars == <<mainpc, shared, genvars, sampvars, dispvars>>

\* initializeDevice: DAQmxCreateTask("InputTask", &inputTask)
SeqCreateInputTask ==
    /\ pc = "init_in_task"
    /\ \/ /\ inputTask' = InputHandle
          /\ live' = live \cup {InputHandle}
          /\ pc' = "init_in_chan"
          /\ UNCHANGED error
       \/ \E e \in ErrorCodes :
          /\ error' = e
          /\ pc' = "init_error"
          /\ UNCHANGED <<inputTask, live>>
    /\ UNCHANGED <<outputTask, timebase, tubeReadings, inputData, outputData,
                   tubeCounter, thrvars, cleared, wlog, lastRead, writeFailed,
                   reads, gate, stopTube, exitCode>>

\* initializeDevice: DAQmxCreateDIChan(inputTask, ..)
SeqCreateInputChan ==
    /\ pc = "init_in_chan"
    /\ \/ pc' = "init_out_task" /\ UNCHANGED error
       \/ \E e \in ErrorCodes : error' = e /\ pc' = "init_error"
    /\ UNCHANGED <<globals, inputData, outputData, tubeCounter, thrvars, world>>

\* initializeDevice: DAQmxCreateTask("OutputTask", &outputTask)
SeqCreateOutputTask ==
    /\ pc = "init_out_task"
    /\ \/ /\ outputTask' = OutputHandle
          /\ live' = live \cup {OutputHandle}
          /\ pc' = "init_out_chan"
          /\ UNCHANGED error
       \/ \E e \in ErrorCodes :
          /\ error' = e
          /\ pc' = "init_error"
          /\ UNCHANGED <<outputTask, live>>
    /\ UNCHANGED <<inputTask, timebase, tubeReadings, inputData, outputData,
                   tubeCounter, thrvars, cleared, wlog, lastRead, writeFailed,
                   reads, gate, stopTube, exitCode>>

\* initializeDevice: DAQmxCreateDOChan(outputTask, ..); return 0
SeqCreateOutputChan ==
    /\ pc = "init_out_chan"
    /\ \/ pc' = "timebase" /\ UNCHANGED error
       \/ \E e \in ErrorCodes : error' = e /\ pc' = "init_error"
    /\ UNCHANGED <<globals, inputData, outputData, tubeCounter, thrvars, world>>

\* initializeDevice's Error label: cleanup(); return error; main returns it.
SeqInitError ==
    /\ pc = "init_error"
    /\ live' = cleanupLive
    /\ cleared' = cleanupCleared
    /\ exitCode' = <<error>>
    /\ pc' = "exit"
    /\ UNCHANGED <<globals, locals, tubeCounter, thrvars, wlog, lastRead,
                   writeFailed, reads, gate, stopTube>>

\* main: the timebase prompt.
SeqTimebase ==
    /\ pc = "timebase"
    /\ \E key \in Keys : timebase' = TimebaseOf(key)
    /\ pc' = "acq_reset_hi"
    /\ UNCHANGED <<inputTask, outputTask, tubeReadings, locals, tubeCounter,
                   thrvars, world>>

\* What a DAQmxErrChk'ed call does to runAcquisition: carry on, or goto Error.
SeqChk(next) ==
    \/ pc' = next /\ UNCHANGED <<error, writeFailed>>
    \/ \E e \in ErrorCodes :
         error' = e /\ pc' = "acq_error" /\ writeFailed' = TRUE

\* runAcquisition: reset high for 3 Tb.
SeqResetHigh ==
    /\ pc = "acq_reset_hi"
    /\ outputData' = <<1, 0>>
    /\ wlog' = LogWrite(wlog, outputData', timebase * 6)
    /\ SeqChk("acq_reset_lo")
    /\ UNCHANGED <<globals, inputData, tubeCounter, thrvars, live, cleared,
                   lastRead, reads, gate, stopTube, exitCode>>

\* runAcquisition: reset low for 1 Tb; the for loop starts.
SeqResetLow ==
    /\ pc = "acq_reset_lo"
    /\ outputData' = <<0, outputData[2]>>
    /\ wlog' = LogWrite(wlog, outputData', timebase * 2)
    /\ \/ pc' = "acq_clk_hi" /\ tubeCounter' = 0 /\ UNCHANGED <<error, writeFailed>>
       \/ \E e \in ErrorCodes :
            /\ error' = e
            /\ pc' = "acq_error"
            /\ writeFailed' = TRUE
            /\ UNCHANGED tubeCounter
    /\ UNCHANGED <<globals, inputData, thrvars, live, cleared, lastRead, reads,
                   gate, stopTube, exitCode>>

\* runAcquisition: clock high for 2.5 Tb.
SeqClockHigh ==
    /\ pc = "acq_clk_hi"
    /\ outputData' = <<outputData[1], 1>>
    /\ wlog' = LogWrite(wlog, outputData', timebase * 5)
    /\ SeqChk("acq_read")
    /\ UNCHANGED <<globals, inputData, tubeCounter, thrvars, live, cleared,
                   lastRead, reads, gate, stopTube, exitCode>>

\* runAcquisition: Sleep(1 Tb); DAQmxReadDigitalLines with timeout 2 Tb.
SeqRead ==
    /\ pc = "acq_read"
    /\ \/ \E s \in BusSamples(tubeCounter) :
            /\ inputData' = s
            /\ lastRead' = "ok"
            /\ pc' = "acq_process"
            /\ UNCHANGED error
       \/ \E e \in ErrorCodes :
            /\ error' = e
            /\ lastRead' = "failed"
            /\ pc' = "acq_error"
            /\ UNCHANGED inputData
    /\ UNCHANGED <<globals, outputData, tubeCounter, thrvars, live, cleared,
                   wlog, writeFailed, reads, gate, stopTube, exitCode>>

\* runAcquisition: processData(inputData, tubeCounter); Sleep(2 Tb).
SeqProcess ==
    /\ pc = "acq_process"
    /\ tubeReadings' = processData(tubeReadings, inputData, tubeCounter)
    /\ pc' = "acq_clk_lo"
    /\ UNCHANGED <<inputTask, outputTask, timebase, locals, tubeCounter,
                   thrvars, world>>

\* runAcquisition: clock low for 2.5 Tb; tubeCounter++; return 0 after tube 15.
SeqClockLow ==
    /\ pc = "acq_clk_lo"
    /\ outputData' = <<outputData[1], 0>>
    /\ wlog' = LogWrite(wlog, outputData', timebase * 5)
    /\ \/ /\ tubeCounter' = tubeCounter + 1
          /\ pc' = IF tubeCounter + 1 < NUM_TUBES THEN "acq_clk_hi" ELSE "display"
          /\ UNCHANGED <<error, writeFailed>>
       \/ \E e \in ErrorCodes :
            /\ error' = e
            /\ pc' = "acq_error"
            /\ writeFailed' = TRUE
            /\ UNCHANGED tubeCounter
    /\ UNCHANGED <<globals, inputData, thrvars, live, cleared, lastRead, reads,
                   gate, stopTube, exitCode>>

\* main: runAcquisition returned 0: displayTable(); Sleep(100); next cycle.
SeqDisplay ==
    /\ pc = "display"
    /\ pc' = "acq_reset_hi"
    /\ UNCHANGED <<globals, locals, tubeCounter, thrvars, world>>

\* main: runAcquisition returned an error: break; cleanup(); return error.
SeqAcqError ==
    /\ pc = "acq_error"
    /\ live' = cleanupLive
    /\ cleared' = cleanupCleared
    /\ exitCode' = <<error>>
    /\ pc' = "exit"
    /\ UNCHANGED <<globals, locals, tubeCounter, thrvars, wlog, lastRead,
                   writeFailed, reads, gate, stopTube>>

NextSeq ==
    \/ SeqCreateInputTask
    \/ SeqCreateInputChan
    \/ SeqCreateOutputTask
    \/ SeqCreateOutputChan
    \/ SeqInitError
    \/ SeqTimebase
    \/ SeqResetHigh
    \/ SeqResetLow
    \/ SeqClockHigh
    \/ SeqRead
    \/ SeqProcess
    \/ SeqClockLow
    \/ SeqDisplay
    \/ SeqAcqError

SpecSeq == InitSeq /\ [][NextSeq]_vars

\* ------------------------------------------------------------ program2.c: main

\* initializeDevice: DAQmxCreateTask("InputTask", &state.inputTask)
ThrCreateInputTask ==
    /\ mainpc = "init_in_task"
    /\ \/ /\ inputTask' = InputHandle
          /\ live' = live \cup {InputHandle}
          /\ mainpc' = "init_in_chan"
          /\ UNCHANGED error
       \/ \E e \in ErrorCodes :
          /\ error' = e
          /\ mainpc' = "init_error"
          /\ UNCHANGED <<inputTask, live>>
    /\ UNCHANGED <<outputTask, timebase, tubeReadings, inputData, outputData,
                   seqvars, shared, genvars, sampvars, dispvars,
                   cleared, wlog, lastRead, writeFailed, reads, gate,
                   stopTube, exitCode>>

\* initializeDevice: DAQmxCreateDIChan(state.inputTask, ..)
ThrCreateInputChan ==
    /\ mainpc = "init_in_chan"
    /\ \/ mainpc' = "init_out_task" /\ UNCHANGED error
       \/ \E e \in ErrorCodes : error' = e /\ mainpc' = "init_error"
    /\ UNCHANGED <<globals, inputData, outputData, seqvars, shared, genvars,
                   sampvars, dispvars, world>>

\* initializeDevice: DAQmxCreateTask("OutputTask", &state.outputTask)
ThrCreateOutputTask ==
    /\ mainpc = "init_out_task"
    /\ \/ /\ outputTask' = OutputHandle
          /\ live' = live \cup {OutputHandle}
          /\ mainpc' = "init_out_chan"
          /\ UNCHANGED error
       \/ \E e \in ErrorCodes :
          /\ error' = e
          /\ mainpc' = "init_error"
          /\ UNCHANGED <<outputTask, live>>
    /\ UNCHANGED <<inputTask, timebase, tubeReadings, inputData, outputData,
                   seqvars, shared, genvars, sampvars, dispvars,
                   cleared, wlog, lastRead, writeFailed, reads, gate,
                   stopTube, exitCode>>

\* initializeDevice: DAQmxCreateDOChan(state.outputTask, ..); return 0
ThrCreateOutputChan ==
    /\ mainpc = "init_out_chan"
    /\ \/ mainpc' = "timebase" /\ UNCHANGED error
       \/ \E e \in ErrorCodes : error' = e /\ mainpc' = "init_error"
    /\ UNCHANGED <<globals, inputData, outputData, seqvars, shared, genvars,
                   sampvars, dispvars, world>>

\* initializeDevice's Error label: return error; main prints and returns it.
ThrInitError ==
    /\ mainpc = "init_error"
    /\ exitCode' = <<error>>
    /\ mainpc' = "exit"
    /\ UNCHANGED <<globals, locals, seqvars, shared, genvars, sampvars,
                   dispvars, live, cleared, wlog, lastRead, writeFailed, reads,
                   gate, stopTube>>

\* main: the timebase prompt, the operator typing one of keys.
ThrPrompt(keys) ==
    /\ mainpc = "timebase"
    /\ \E key \in keys : timebase' = TimebaseOf(key)
    /\ mainpc' = "spawn_output"
    /\ UNCHANGED <<inputTask, outputTask, tubeReadings, locals, seqvars,
                   shared, genvars, sampvars, dispvars, world>>

ThrTimebase == ThrPrompt(Keys)

\* the same prompt answered with an unlisted key: the default timebase stays
ThrTimebaseDefault == ThrPrompt({"x"})

\* main: std::thread outputThread(outputThreadFunc)
SpawnOutput ==
    /\ mainpc = "spawn_output"
    /\ gpc' = "g_while"
    /\ mainpc' = "spawn_input"
    /\ UNCHANGED <<globals, locals, seqvars, shared, gi, sampvars, dispvars, world>>

\* main: std::thread inputThread(inputThreadFunc)
SpawnInput ==
    /\ mainpc = "spawn_input"
    /\ spc' = "s_while"
    /\ mainpc' = "spawn_display"
    /\ UNCHANGED <<globals, locals, seqvars, shared, genvars, si, dispvars, world>>

\* main: std::thread displayThread(displayThreadFunc)
SpawnDisplay ==
    /\ mainpc = "spawn_display"
    /\ dpc' = "d_while"
    /\ mainpc' = "wait_enter"
    /\ UNCHANGED <<globals, locals, seqvars, shared, genvars, sampvars, di, world>>

\* StopRequest releasing the two tasks before the threads are joined.
StopRequestReleases ==
    /\ mainpc = "wait_enter"
    /\ running' = FALSE
    /\ live' = cleanupLive
    /\ cleared' = cleanupCleared
    /\ mainpc' = "join_output"
    /\ UNCHANGED <<globals, locals, seqvars, mutex, resetActive, clockHigh,
                   currentTube, tubeMutex, genvars, sampvars, dispvars, wlog,
                   lastRead, writeFailed, reads, gate, stopTube, exitCode>>

\* main: cin.get() returns; state.running = false
StopRequest ==
    /\ mainpc = "wait_enter"
    /\ running' = FALSE
    /\ mainpc' = "join_output"
    /\ UNCHANGED <<globals, locals, seqvars, mutex, resetActive, clockHigh,
                   currentTube, tubeMutex, genvars, sampvars, dispvars, world>>

\* main: outputThread.join()
JoinOutput ==
    /\ mainpc = "join_output"
    /\ gpc = "done"
    /\ mainpc' = "join_input"
    /\ UNCHANGED <<globals, locals, seqvars, shared, genvars, sampvars,
                   dispvars, world>>

\* main: inputThread.join()
JoinInput ==
    /\ mainpc = "join_input"
    /\ spc = "done"
    /\ mainpc' = "join_display"
    /\ UNCHANGED <<globals, locals, seqvars, shared, genvars, sampvars,
                   dispvars, world>>

\* main: displayThread.join()
JoinDisplay ==
    /\ mainpc = "join_display"
    /\ dpc = "done"
    /\ mainpc' = "cleanup"
    /\ UNCHANGED <<globals, locals, seqvars, shared, genvars, sampvars,
                   dispvars, world>>

\* main: stop and clear each task whose handle is not 0; return 0
ThrCleanup ==
    /\ mainpc = "cleanup"
    /\ live' = cleanupLive
    /\ cleared' = cleanupCleared
    /\ exitCode' = <<0>>
    /\ mainpc' = "exit"
    /\ UNCHANGED <<globals, locals, seqvars, shared, genvars, sampvars,
                   dispvars, wlog, lastRead, writeFailed, reads, gate, stopTube>>

\* StopRequest, the loop indices of the two roles noted as it happens
StopRequestMarked ==
    /\ mainpc = "wait_enter"
    /\ running' = FALSE
    /\ stopTube' = <<gi, si>>
    /\ mainpc' = "join_output"
    /\ UNCHANGED <<globals, locals, seqvars, mutex, resetActive, clockHigh,
                   currentTube, tubeMutex, genvars, sampvars, dispvars, live,
                   cleared, wlog, lastRead, writeFailed, reads, gate, exitCode>>

MainSteps ==
    \/ ThrCreateInputTask
    \/ ThrCreateInputChan
    \/ ThrCreateOutputTask
    \/ ThrCreateOutputChan
    \/ ThrInitError
    \/ SpawnOutput
    \/ SpawnInput
    \/ SpawnDisplay
    \/ StopRequest
    \/ JoinOutput
    \/ JoinInput

\* main with an unlisted key at the prompt and the stop request marked
MainMarked ==
    \/ ThrCreateInputTask
    \/ ThrCreateInputChan
    \/ ThrCreateOutputTask
    \/ ThrCreateOutputChan
    \/ ThrInitError
    \/ ThrTimebaseDefault
    \/ SpawnOutput
    \/ SpawnInput
    \/ SpawnDisplay
    \/ StopRequestMarked
    \/ JoinOutput
    \/ JoinInput

\* main from its start to the prompt for Enter, an unlisted key at the prompt
MainStart ==
    \/ ThrCreateInputTask
    \/ ThrCreateInputChan
    \/ ThrCreateOutputTask
    \/ ThrCreateOutputChan
    \/ ThrInitError
    \/ ThrTimebaseDefault
    \/ SpawnOutput
    \/ SpawnInput
    \/ SpawnDisplay

\* main up to inputThread.join(), with the whole prompt
Main == MainSteps \/ ThrTimebase

\* the same with the prompt answered by an unlisted key
MainDefault == MainSteps \/ ThrTimebaseDefault

\* main from displayThread.join() on: it needs the display thread to run
MainExit == JoinDisplay \/ ThrCleanup

\* ------------------------------------------------------------ outputThreadFunc

genframe == <<globals, error, inputData, seqvars, mainpc, running, tubeMutex,
              sampvars, dispvars, live, cleared, lastRead, exitCode>>

\* while (state.running)
GenWhile ==
    /\ gpc = "g_while"
    /\ gpc' = IF running THEN "g_reset_lock" ELSE "done"
    /\ UNCHANGED <<genframe, outputData, mutex, resetActive, clockHigh,
                   currentTube, gi, wlog, writeFailed, reads, gate, stopTube>>

\* lock_guard lock(state.mutex), at any of the four guarded blocks
GenLock(at, next) ==
    /\ gpc = at
    /\ mutex = "free"
    /\ mutex' = "gen"
    /\ gpc' = next
    /\ UNCHANGED <<genframe, outputData, resetActive, clockHigh, currentTube,
                   gi, wlog, writeFailed, reads, gate, stopTube>>

\* DAQmxWriteDigitalLines(state.outputTask, .., hold, .., data, ..): the write
\* is issued; the status it returns is not looked at
GenWrite(data, hold) ==
    /\ wlog' = LogWrite(wlog, data, hold)
    /\ \E ok \in BOOLEAN : writeFailed' = (writeFailed \/ ~ok)

GenResetLock == GenLock("g_reset_lock", "g_reset_pub")

\* reset high, clock low, resetActive = true, currentTube = 0; unlock; notify_all
GenResetPublish ==
    /\ gpc = "g_reset_pub"
    /\ outputData' = <<1, 0>>
    /\ resetActive' = TRUE
    /\ currentTube' = 0
    /\ mutex' = "free"
    /\ reads' = [t \in Tubes |-> 0]
    /\ UNCHANGED <<gate, stopTube>>
    /\ gpc' = "g_reset_hi"
    /\ UNCHANGED <<genframe, clockHigh, gi, wlog, writeFailed>>

\* DAQmxWriteDigitalLines(.., timebase*3.0, ..)
GenWriteResetHigh ==
    /\ gpc = "g_reset_hi"
    /\ GenWrite(outputData, timebase * 6)
    /\ gpc' = "g_reset_lo"
    /\ UNCHANGED <<genframe, outputData, mutex, resetActive, clockHigh,
                   currentTube, gi, reads, gate, stopTube>>

\* GenWriteResetLow holding the low reset line for 3 Tb.
GenWriteResetLowLong ==
    /\ gpc = "g_reset_lo"
    /\ outputData' = <<0, outputData[2]>>
    /\ GenWrite(outputData', timebase * 6)
    /\ gpc' = "g_clear_lock"
    /\ UNCHANGED <<genframe, mutex, resetActive, clockHigh, currentTube, gi,
                   reads, gate, stopTube>>

\* outputData[0] = 0; DAQmxWriteDigitalLines(.., timebase, ..)
GenWriteResetLow ==
    /\ gpc = "g_reset_lo"
    /\ outputData' = <<0, outputData[2]>>
    /\ GenWrite(outputData', timebase * 2)
    /\ gpc' = "g_clear_lock"
    /\ UNCHANGED <<genframe, mutex, resetActive, clockHigh, currentTube, gi,
                   reads, gate, stopTube>>

GenClearLock == GenLock("g_clear_lock", "g_clear_pub")

\* resetActive = false; unlock; the for loop starts with i = 0
GenClearPublish ==
    /\ gpc = "g_clear_pub"
    /\ resetActive' = FALSE
    /\ mutex' = "free"
    /\ gi' = 0
    /\ gpc' = "g_hi_lock"
    /\ UNCHANGED <<genframe, outputData, clockHigh, currentTube, wlog,
                   writeFailed, reads, gate, stopTube>>

\* GenHighLock waiting until the Sampler is ready for the pulse.
GenHighLockWaitsSampler ==
    GenLock("g_hi_lock", "g_hi_pub") /\ spc = "s_wait_hi"

GenHighLock == GenLock("g_hi_lock", "g_hi_pub")

\* outputData[1] = 1; clockHigh = true; unlock; notify_all
GenHighPublish ==
    /\ gpc = "g_hi_pub"
    /\ outputData' = <<outputData[1], 1>>
    /\ clockHigh' = TRUE
    /\ mutex' = "free"
    /\ gate' = IF gate = "lowered" THEN "open" ELSE gate
    /\ gpc' = "g_clk_hi"
    /\ UNCHANGED <<genframe, resetActive, currentTube, gi, wlog, writeFailed,
                   reads, stopTube>>

\* GenWriteClockHigh polling the run flag in the middle of the pulse.
GenWriteClockHighPolls ==
    /\ gpc = "g_clk_hi"
    /\ GenWrite(outputData, timebase * 5)
    /\ gpc' = IF running THEN "g_lo_lock" ELSE "done"
    /\ UNCHANGED <<genframe, outputData, mutex, resetActive, clockHigh,
                   currentTube, gi, reads, gate, stopTube>>

\* DAQmxWriteDigitalLines(.., timebase*2.5, ..)
GenWriteClockHigh ==
    /\ gpc = "g_clk_hi"
    /\ GenWrite(outputData, timebase * 5)
    /\ gpc' = "g_lo_lock"
    /\ UNCHANGED <<genframe, outputData, mutex, resetActive, clockHigh,
                   currentTube, gi, reads, gate, stopTube>>

GenLowLock == GenLock("g_lo_lock", "g_lo_pub")

\* GenLowPublish without outputData[1] = 0.
GenLowPublishKeepsClock ==
    /\ gpc = "g_lo_pub"
    /\ clockHigh' = FALSE
    /\ mutex' = "free"
    /\ gate' = IF gate = "taken" THEN "lowered" ELSE gate
    /\ gpc' = "g_clk_lo"
    /\ UNCHANGED <<genframe, outputData, resetActive, currentTube, gi, wlog,
                   writeFailed, reads, stopTube>>

\* outputData[1] = 0; clockHigh = false; unlock; notify_all
GenLowPublish ==
    /\ gpc = "g_lo_pub"
    /\ outputData' = <<outputData[1], 0>>
    /\ clockHigh' = FALSE
    /\ mutex' = "free"
    /\ gate' = IF gate = "taken" THEN "lowered" ELSE gate
    /\ gpc' = "g_clk_lo"
    /\ UNCHANGED <<genframe, resetActive, currentTube, gi, wlog, writeFailed,
                   reads, stopTube>>

\* DAQmxWriteDigitalLines(.., timebase*2.5, ..); i++; the loop test
GenWriteClockLow ==
    /\ gpc = "g_clk_lo"
    /\ GenWrite(outputData, timebase * 5)
    /\ gi' = gi + 1
    /\ gpc' = IF gi + 1 < NUM_TUBES THEN "g_hi_lock" ELSE "g_while"
    /\ UNCHANGED <<genframe, outputData, mutex, resetActive, clockHigh,
                   currentTube, reads, gate, stopTube>>

Generator ==
    \/ GenWhile
    \/ GenResetLock
    \/ GenResetPublish
    \/ GenWriteResetHigh
    \/ GenWriteResetLow
    \/ GenClearLock
    \/ GenClearPublish
    \/ GenHighLock
    \/ GenHighPublish
    \/ GenWriteClockHigh
    \/ GenLowLock
    \/ GenLowPublish
    \/ GenWriteClockLow

\* ------------------------------------------------------------ inputThreadFunc

sampframe == <<inputTask, outputTask, timebase, error, outputData, seqvars,
               mainpc, running, resetActive, clockHigh, currentTube, genvars,
               dispvars, live, cleared, wlog, writeFailed, exitCode>>

\* while (state.running)
SampWhile ==
    /\ spc = "s_while"
    /\ spc' = IF running THEN "s_wait_reset" ELSE "done"
    /\ UNCHANGED <<sampframe, tubeReadings, inputData, mutex, tubeMutex, si,
                   lastRead, reads, gate, stopTube>>

\* cond.wait(lock, pred) returns, holding state.mutex, once pred is true
SampWait(at, pred, next) ==
    /\ spc = at
    /\ mutex = "free"
    /\ pred
    /\ mutex' = "samp"
    /\ spc' = next
    /\ UNCHANGED <<sampframe, tubeReadings, inputData, tubeMutex, si, lastRead,
                   reads, gate, stopTube>>

\* state.resetCond.wait(lock, []{return state.resetActive;})
SampWaitReset == SampWait("s_wait_reset", resetActive, "s_reset_seen")

\* the unique_lock goes out of scope; the for loop starts with i = 0
SampResetSeen ==
    /\ spc = "s_reset_seen"
    /\ mutex' = "free"
    /\ si' = 0
    /\ spc' = "s_wait_hi"
    /\ UNCHANGED <<sampframe, tubeReadings, inputData, tubeMutex, lastRead,
                   reads, gate, stopTube>>

\* state.clockCond.wait(lock, []{return state.clockHigh;})
SampWaitHigh == SampWait("s_wait_hi", clockHigh, "s_hi_seen")

\* the same wait, the pass noted on the gate
SampWaitHighGated ==
    /\ spc = "s_wait_hi"
    /\ mutex = "free"
    /\ clockHigh
    /\ mutex' = "samp"
    /\ gate' = "taken"
    /\ spc' = "s_hi_seen"
    /\ UNCHANGED <<sampframe, tubeReadings, inputData, tubeMutex, si, lastRead,
                   reads, stopTube>>

\* the unique_lock goes out of scope
SampHighSeen ==
    /\ spc = "s_hi_seen"
    /\ mutex' = "free"
    /\ spc' = "s_read"
    /\ UNCHANGED <<sampframe, tubeReadings, inputData, tubeMutex, si, lastRead,
                   reads, gate, stopTube>>

\* sleep_for(1 Tb); DAQmxReadDigitalLines(.., timebase*2.0, ..) fills inputData
\* with a sample of the bus
SampReadOk(bus) ==
    /\ spc = "s_read"
    /\ \E s \in bus : inputData' = s
    /\ lastRead' = "ok"
    /\ spc' = "s_process_lock"
    /\ UNCHANGED <<sampframe, tubeReadings, mutex, tubeMutex, si>>

\* sleep_for(1 Tb); DAQmxReadDigitalLines times out or fails: the status is not
\* looked at and inputData stays as the previous read left it
SampReadFailed ==
    /\ spc = "s_read"
    /\ lastRead' = "failed"
    /\ spc' = "s_process_lock"
    /\ UNCHANGED <<sampframe, tubeReadings, inputData, mutex, tubeMutex, si>>

\* the read of a bus on which FlyTube holds a fly and the read of FailTube
\* may fail
SampRead ==
    /\ \/ SampReadOk(ThrBusSamples(si))
       \/ si = FailTube /\ SampReadFailed
    /\ UNCHANGED <<reads, gate, stopTube>>

\* the same read with every tube empty and the adapter answering
SampReadQuiet == SampReadOk({Idle}) /\ UNCHANGED <<reads, gate, stopTube>>

\* the quiet read, tallied per tube and Generator cycle
SampReadTallied ==
    /\ SampReadOk({Idle})
    /\ reads' = [reads EXCEPT ![si] = @ + 1]
    /\ UNCHANGED <<gate, stopTube>>

\* processData: lock_guard lock(tubeReadings[tubeNumber].mutex)
SampProcessLock ==
    /\ spc = "s_process_lock"
    /\ tubeMutex[si] = "free"
    /\ tubeMutex' = [tubeMutex EXCEPT ![si] = "samp"]
    /\ spc' = "s_process"
    /\ UNCHANGED <<sampframe, tubeReadings, inputData, mutex, si, lastRead,
                   reads, gate, stopTube>>

\* processData(inputData, i): the body; unlock
SampProcess ==
    /\ spc = "s_process"
    /\ tubeReadings' = processData(tubeReadings, inputData, si)
    /\ tubeMutex' = [tubeMutex EXCEPT ![si] = "free"]
    /\ spc' = "s_wait_lo"
    /\ UNCHANGED <<sampframe, inputData, mutex, si, lastRead, reads, gate,
                   stopTube>>

\* SampWaitLow returning without looking at the clock.
SampWaitLowSkips == SampWait("s_wait_lo", TRUE, "s_lo_seen")

\* state.clockCond.wait(lock, []{return !state.clockHigh;})
SampWaitLow == SampWait("s_wait_lo", ~clockHigh, "s_lo_seen")

\* the unique_lock goes out of scope; i++; the loop test
SampLowSeen ==
    /\ spc = "s_lo_seen"
    /\ mutex' = "free"
    /\ si' = si + 1
    /\ spc' = IF si + 1 < NUM_TUBES THEN "s_wait_hi" ELSE "s_while"
    /\ UNCHANGED <<sampframe, tubeReadings, inputData, tubeMutex, lastRead,
                   reads, gate, stopTube>>

SamplerSteps ==
    \/ SampWhile
    \/ SampWaitReset
    \/ SampResetSeen
    \/ SampWaitHigh
    \/ SampHighSeen
    \/ SampProcessLock
    \/ SampProcess
    \/ SampWaitLow
    \/ SampLowSeen

Sampler == SamplerSteps \/ SampRead

SamplerQuiet == SamplerSteps \/ SampReadQuiet

SamplerTallied == SamplerSteps \/ SampReadTallied

\* the quiet Sampler with its passes of the clock-high wait noted
SamplerGated ==
    \/ SampWhile
    \/ SampWaitReset
    \/ SampResetSeen
    \/ SampWaitHighGated
    \/ SampHighSeen
    \/ SampReadQuiet
    \/ SampProcessLock
    \/ SampProcess
    \/ SampWaitLow
    \/ SampLowSeen

\* the steps in which the Sampler leaves a scope that holds state.mutex
SampRelease == SampResetSeen \/ SampHighSeen \/ SampLowSeen

\* ------------------------------------------------------------ displayThreadFunc

dispframe == <<globals, locals, seqvars, mainpc, running, mutex, resetActive,
               clockHigh, currentTube, genvars, sampvars, world>>

\* while (state.running): print the header; the for loop starts with i = 0
DispWhile ==
    /\ dpc = "d_while"
    /\ dpc' = IF running THEN "d_lock" ELSE "done"
    /\ di' = 0
    /\ UNCHANGED <<dispframe, tubeMutex>>

\* lock_guard lock(tubeReadings[i].mutex)
DispLock ==
    /\ dpc = "d_lock"
    /\ tubeMutex[di] = "free"
    /\ tubeMutex' = [tubeMutex EXCEPT ![di] = "disp"]
    /\ dpc' = "d_print"
    /\ UNCHANGED <<dispframe, di>>

\* DispPrint keeping the tube's mutex locked when it moves on.
DispPrintKeepsLock ==
    /\ dpc = "d_print"
    /\ di' = di + 1
    /\ dpc' = IF di + 1 < NUM_TUBES THEN "d_lock" ELSE "d_sleep"
    /\ UNCHANGED <<dispframe, tubeMutex>>

\* print the row of tube i; unlock; i++; the loop test
DispPrint ==
    /\ dpc = "d_print"
    /\ tubeMutex' = [tubeMutex EXCEPT ![di] = "free"]
    /\ di' = di + 1
    /\ dpc' = IF di + 1 < NUM_TUBES THEN "d_lock" ELSE "d_sleep"
    /\ UNCHANGED dispframe

\* sleep_for(100 ms)
DispSleep ==
    /\ dpc = "d_sleep"
    /\ dpc' = "d_while"
    /\ UNCHANGED <<dispframe, tubeMutex, di>>

Display ==
    \/ DispWhile
    \/ DispLock
    \/ DispPrint
    \/ DispSleep

\* ------------------------------------------------------------ specifications
\*
\* The threaded program is the product of four threads, the operator's key,
\* the bus samples and the adapter's failures; each specification below is a
\* part of it that TLC can explore in full.  A part leaves out steps the
\* scheduler or the environment may never take (the display thread is never
\* scheduled, the operator types an unlisted key, the bus is quiet), so every
\* behaviour of a part is a behaviour of the program.

\* program2.c: main, Generator and Sampler; any key; a quiet bus.
NextEngine == Main \/ Generator \/ SamplerQuiet

SpecEngine == InitThr /\ [][NextEngine]_vars

\* The same with the default timebase and the Sampler's reads tallied.
NextTally == MainDefault \/ Generator \/ SamplerTallied

SpecTally == InitThr /\ [][NextTally]_vars

\* main, Generator and Sampler with a fly in FlyTube and reads that may fail.
NextData == MainDefault \/ Generator \/ Sampler

SpecData == InitThr /\ [][NextData]_vars

\* The engine with the stop request marked.
NextStop == MainMarked \/ Generator \/ SamplerQuiet

SpecStop == InitThr /\ [][NextStop]_vars

\* The engine with the Sampler's passes of the clock gate noted.
NextGate == MainDefault \/ Generator \/ SamplerGated

SpecGate == InitThr /\ [][NextGate]_vars

\* The engine while the operator leaves it running: no stop request.
NextRun == MainStart \/ Generator \/ SamplerQuiet

SpecRun == InitThr /\ [][NextRun]_vars

\* The same with a fair Generator and a Sampler that may stall for ever
\* wherever it does not hold state.mutex: all it is bound to do is to leave a
\* lock scope it has entered.
FairSpecRun ==
    /\ SpecRun
    /\ WF_vars(Generator)
    /\ WF_vars(SampRelease)

\* All four threads of program2.c, up to main's return; a quiet bus.
NextAll == MainDefault \/ MainExit \/ Generator \/ SamplerQuiet \/ Display

SpecAll == InitThr /\ [][NextAll]_vars

\* The same under fair scheduling: every thread that can run does run, and
\* the Sampler gets through a wait whose predicate is true again and again.
FairSpecAll ==
    /\ SpecAll
    /\ WF_vars(MainDefault \/ MainExit)
    /\ WF_vars(Generator)
    /\ SF_vars(SamplerQuiet)
    /\ WF_vars(Display)

\* Either program as a whole: program.c, or all four threads of program2.c.
NextWhole == NextSeq \/ NextAll

SpecWhole == Init /\ [][NextWhole]_vars

\* Either program: program.c, or the engine of program2.c.
Next == NextSeq \/ NextEngine

Spec == Init /\ [][Next]_vars

\* Either program, with the data path of program2.c.
NextDecode == NextSeq \/ NextData

SpecDecode == Init /\ [][NextDecode]_vars

\* ------------------------------------------------------------ the decoder

\* A step that runs processData, in either program, and the tube it decodes.
DecodeStep ==
    \/ pc = "acq_process" /\ pc' = "acq_clk_lo"
    \/ spc = "s_process" /\ spc' = "s_wait_lo"

DecodedTube == IF pc = "acq_process" THEN tubeCounter ELSE si

DataLinesLow ==
    inputData[1] = 0 /\ inputData[2] = 0 /\ inputData[3] = 0 /\ inputData[4] = 0

\* C1: a decode of a sample with DV low sets the tube's position to
\* D0 + 2*D1 + 4*D2 + 8*D3 and its feeding flag to false, whatever the tube's
\* state was before.
DecodeDvLow ==
    [][DecodeStep /\ inputData[5] = 0 =>
          tubeReadings'[DecodedTube] =
              [value |-> inputData[1] + 2 * inputData[2] + 4 * inputData[3]
                         + 8 * inputData[4],
               isEating |-> FALSE]]_vars

\* A DV-low sample with D3 high has been decoded into a tube of the table.
DecodeDvLowWitness ==
    /\ pc = "acq_clk_lo"
    /\ inputData = <<1, 0, 1, 1, 0>>
    /\ tubeReadings[FlyTube] = [value |-> 13, isEating |-> FALSE]

\* C2: a decode of a sample with DV high that does not meet the feeding
\* condition (D0..D3 low and previous position 1) changes nothing, and no
\* decode changes the state of a tube other than its own.
DecodeLatch ==
    [][DecodeStep =>
          /\ (inputData[5] = 1
                 /\ ~(DataLinesLow /\ tubeReadings[DecodedTube].value = 1)
              => tubeReadings' = tubeReadings)
          /\ \A t \in Tubes \ {DecodedTube} : tubeReadings'[t] = tubeReadings[t]
      ]_vars

\* A feeding tube has kept its latch through a DV-high sample with a data
\* line high.
DecodeLatchWitness ==
    /\ pc = "acq_clk_lo"
    /\ inputData = <<1, 1, 0, 0, 1>>
    /\ tubeReadings[FlyTube] = [value |-> 1, isEating |-> TRUE]

\* C3: a decode of the sample DV high, D0..D3 low over a tube at position 1
\* sets feeding and leaves the position at 1.
DecodeFeeding ==
    [][DecodeStep /\ inputData = <<0, 0, 0, 0, 1>>
          /\ tubeReadings[DecodedTube].value = 1 =>
          tubeReadings'[DecodedTube] = [value |-> 1, isEating |-> TRUE]]_vars

\* The threaded Sampler has decoded the feeding sample over the fly tube.
DecodeFeedingWitness ==
    /\ spc = "s_wait_lo"
    /\ si = FlyTube
    /\ inputData = <<0, 0, 0, 0, 1>>
    /\ lastRead = "ok"
    /\ tubeReadings[FlyTube] = [value |-> 1, isEating |-> TRUE]

\* ------------------------------------------------------------ the waveform

\* The number of bus writes of one scan cycle: two for the reset pulse and
\* two for each tube's clock pulse.
CycleLength == 2 + 2 * NUM_TUBES

\* The line values <<reset, clock>> of the k-th write of a scan cycle.
ExpectedWrite(k) ==
    IF k = 1 THEN <<1, 0>>
    ELSE IF k % 2 = 0 THEN <<0, 0>> ELSE <<0, 1>>

WaveformState ==
    /\ ~(resetActive /\ clockHigh)
    /\ Len(wlog) <= CycleLength
    /\ \A k \in 1 .. Len(wlog) :
          <<wlog[k].reset, wlog[k].clock>> = ExpectedWrite(k)
    /\ gpc = "g_clk_hi" => Len(wlog) = 2 + 2 * gi
    /\ gpc \in {"g_lo_lock", "g_lo_pub", "g_clk_lo"} => Len(wlog) = 3 + 2 * gi

\* C4: the Generator never publishes resetActive and clockHigh together and
\* never writes reset = 1 with clock = 1; the writes of a cycle are
\* (1,0), (0,0), then (0,1), (0,0) for tube 0, 1, .., 15 in this order, the
\* pulse of tube i being the (i+1)-th; and a reset-high write comes only first
\* of all or after the clock-low write of tube 15.
WaveformOrder ==
    /\ []WaveformState
    /\ [][gpc = "g_reset_hi" /\ gpc' = "g_reset_lo" =>
             Len(wlog) \in {0, CycleLength}]_vars

\* The reset of a second cycle has been written after the sixteen pulses of
\* the first.
WaveformOrderWitness ==
    /\ gpc = "g_reset_lo"
    /\ gi = NUM_TUBES
    /\ Len(wlog) = 1
    /\ wlog[1].reset = 1

RECURSIVE HoldSum(_)
HoldSum(log) == IF log = <<>> THEN 0 ELSE Head(log).hold + HoldSum(Tail(log))

\* C5: the writes of a complete scan cycle hold for 3 Tb, 1 Tb and sixteen
\* times 2.5 Tb + 2.5 Tb, 84 Tb in all, in both programs.  (timebase counts
\* 10 us and a hold 5 us: 84 Tb is 168 * timebase.)
CycleHolds ==
    Len(wlog) = CycleLength =>
        /\ wlog[1].hold = 6 * timebase
        /\ wlog[2].hold = 2 * timebase
        /\ \A k \in 3 .. CycleLength : wlog[k].hold = 5 * timebase
        /\ HoldSum(wlog) = 168 * timebase

\* The threaded Generator has completed a cycle at the 10 ms timebase.
CycleHoldsWitness ==
    /\ gpc = "g_while"
    /\ Len(wlog) = CycleLength
    /\ timebase = 1000
    /\ HoldSum(wlog) = 168000

\* ------------------------------------------------------------ the rendezvous

\* C6: whenever the Sampler reads the bus for tube i, the Generator is inside
\* the clock-high window of tube i: clockHigh is published and its own loop
\* index is i.
ReadInsideWindow ==
    [][spc = "s_read" /\ spc' = "s_process_lock" => clockHigh /\ gi = si]_vars

\* C7: in every Generator cycle every tube is read exactly once: no tube is
\* read twice since the last reset, and when the Generator, a cycle behind it,
\* is about to publish the next reset every tube has been read.
OneReadPerCycle ==
    /\ \A c \in Tubes : reads[c] <= 1
    /\ gpc = "g_reset_pub" /\ gi = NUM_TUBES => \A c \in Tubes : reads[c] = 1

\* C8: when the Generator publishes the clock-high of tube c+1, the Sampler
\* has read tube c in this cycle and is through with decoding it.
DecodeBeforeNextPulse ==
    [][gpc = "g_hi_pub" /\ gpc' = "g_clk_hi" /\ gi > 0 =>
          /\ reads[gi - 1] >= 1
          /\ ~(si = gi - 1 /\ spc \in {"s_read", "s_process_lock", "s_process"})
      ]_vars

\* C9: a decode that follows a failed read changes nothing (the decode is
\* skipped and the tube keeps its position and feeding flag).
FailedReadKeepsTube ==
    [][spc = "s_process" /\ spc' = "s_wait_lo" /\ lastRead = "failed" =>
          tubeReadings' = tubeReadings]_vars

\* C10: once the run flag is cleared, main eventually returns with both line
\* tasks released.
StopReleasesTasks == (~running) ~> (mainpc = "exit" /\ live = {})

\* ------------------------------------------------------------ stopping

\* The line values of the latest bus write issued, <<0, 0>> before the first.
LastWritten ==
    IF wlog = <<>> THEN <<0, 0>>
    ELSE <<wlog[Len(wlog)].reset, wlog[Len(wlog)].clock>>

\* C11: when the Generator has left its loop, the run flag is cleared, the
\* last values it wrote are reset = 0 and clock = 0, and neither resetActive
\* nor clockHigh is set: it never ends with a line asserted.
GeneratorEndsLow ==
    gpc = "done" =>
        /\ ~running
        /\ LastWritten = <<0, 0>>
        /\ outputData = <<0, 0>>
        /\ ~resetActive
        /\ ~clockHigh

\* The Generator has left its loop at the end of a whole scan cycle.
GeneratorEndsLowWitness ==
    /\ gpc = "done"
    /\ Len(wlog) = CycleLength
    /\ wlog[CycleLength - 1].clock = 1

\* C12: once the run flag has been cleared, with the Generator at tube k and
\* the Sampler at tube j at that moment, the Generator holds the clock high
\* for no tube after k and the Sampler reads no tube after j: each role ends
\* at the next tube boundary.
StopsAtTubeBoundary ==
    ~running =>
        /\ gpc = "g_clk_hi" => gi <= stopTube[1]
        /\ spc = "s_read" => si <= stopTube[2]

\* ------------------------------------------------------------ progress

\* C13: with the run flag true, a Generator that has been started publishes
\* a new reset again and again, whatever the Sampler does outside its lock
\* scopes, stalling for ever included.
GeneratorKeepsCycling == []<>(gpc = "unborn" \/ gpc = "g_reset_hi")

\* The Generator has emitted a whole scan cycle and published the next reset
\* while the Sampler is still inside the bus read of tube 0.
GeneratorKeepsCyclingWitness ==
    /\ running
    /\ gpc = "g_reset_hi"
    /\ Len(wlog) = CycleLength
    /\ spc = "s_read"
    /\ si = 0

\* ------------------------------------------------------------ errors

\* C14: a process that has exited on a failure of initializeDevice, in
\* either program, has exited with the failing call's non-zero code and has
\* released every task it had acquired.
InitFailureReleases ==
    (pc = "exit" \/ mainpc = "exit") /\ error # 0 /\ wlog = <<>> =>
        /\ exitCode = <<error>>
        /\ live = {}

\* C15: once a bus write has returned a failure, in either program, no
\* further bus write is issued, and a process that has exited after it has
\* exited with a non-zero code.
WriteFailureIsFatal ==
    /\ [](writeFailed /\ exitCode # <<>> => exitCode[1] # 0)
    /\ [][writeFailed => wlog' = wlog]_vars

\* ------------------------------------------------------------ the mutexes

\* The tube mutexes a thread holds.
HeldTubes(who) == {t \in Tubes : tubeMutex[t] = who}

\* C16: no thread holds two mutexes.  state.mutex is held only inside the
\* publishing scopes of the Generator and the wait scopes of the Sampler, and
\* never together with a tube mutex; the Sampler holds a tube mutex only
\* inside processData for its current tube, the display thread only while it
\* prints its current row; so whoever holds a mutex is not waiting for one.
OneMutexAtATime ==
    /\ mutex \in {"free", "gen", "samp"}
    /\ \A t \in Tubes : tubeMutex[t] \in {"free", "samp", "disp"}
    /\ mutex = "gen" =>
           gpc \in {"g_reset_pub", "g_clear_pub", "g_hi_pub", "g_lo_pub"}
    /\ mutex = "samp" =>
           /\ spc \in {"s_reset_seen", "s_hi_seen", "s_lo_seen"}
           /\ HeldTubes("samp") = {}
    /\ HeldTubes("samp") # {} =>
           spc = "s_process" /\ HeldTubes("samp") = {si}
    /\ HeldTubes("disp") # {} =>
           dpc = "d_print" /\ HeldTubes("disp") = {di}

\* The display thread holds the mutex of the tube the Sampler is about to
\* decode, while the Generator is inside a publishing scope.
OneMutexAtATimeWitness ==
    /\ mutex = "gen"
    /\ spc = "s_process_lock"
    /\ tubeMutex[si] = "disp"
    /\ si > 0

\* ------------------------------------------------------------ the table

\* C17: in every table the decoder can produce from the initial one, a tube
\* that is feeding is at position 1; a step that sets the feeding flag of a
\* tube starts with that tube at position 1, and the position of a tube does
\* not change in a step that leaves it feeding.
FeedingAtOne ==
    /\ [](\A t \in Tubes : tubeReadings[t].isEating => tubeReadings[t].value = 1)
    /\ [][\A t \in Tubes :
            /\ ~tubeReadings[t].isEating /\ tubeReadings'[t].isEating =>
                   tubeReadings[t].value = 1
            /\ tubeReadings[t].isEating /\ tubeReadings'[t].isEating =>
                   tubeReadings'[t].value = tubeReadings[t].value]_vars

\* A feeding tube has been decoded once more, with DV high and D1 high: it
\* is still feeding at position 1.
FeedingAtOneWitness ==
    /\ pc = "acq_clk_lo"
    /\ tubeCounter = FlyTube
    /\ inputData = <<0, 1, 0, 0, 1>>
    /\ tubeReadings[FlyTube] = [value |-> 1, isEating |-> TRUE]

\* ------------------------------------------------------------ the clock gate

\* C18: the Sampler passes its wait for clock-high only through an open gate:
\* since its previous pass the Generator has published clock-low and, after
\* that, clock-high again.  One publication of clock-high admits it once.
OncePerClockHigh ==
    [][spc = "s_wait_hi" /\ spc' = "s_hi_seen" => clockHigh /\ gate = "open"]_vars

\* The Sampler has passed the wait for its second tube, on the Generator's
\* third pulse.
OncePerClockHighWitness ==
    /\ spc = "s_hi_seen"
    /\ gate = "taken"
    /\ si = 1
    /\ gi = 2

\* ------------------------------------------------------------ the tasks

\* A step that issues a bus write or a bus read, in either program.
BusStep ==
    \/ pc \in {"acq_reset_hi", "acq_reset_lo", "acq_clk_hi", "acq_read",
               "acq_clk_lo"} /\ pc' # pc
    \/ gpc \in {"g_reset_hi", "g_reset_lo", "g_clk_hi", "g_clk_lo"} /\ gpc' # gpc
    \/ spc = "s_read" /\ spc' # spc

\* main of program2.c is in, or has returned from, a failed initializeDevice.
ThrInitFailed ==
    mainpc = "init_error" \/ (mainpc = "exit" /\ exitCode # <<0>>)

\* C19: the bus is written and read only while both tasks are acquired and
\* not released; after a failed initialization no thread is started and the
\* bus is not used; and no task is cleared twice.
TasksHeldWhileUsed ==
    /\ [](\A h \in {InputHandle, OutputHandle} : cleared[h] <= 1)
    /\ [](ThrInitFailed \/ pc = "init_error" =>
             /\ gpc = "unborn" /\ spc = "unborn" /\ dpc = "unborn"
             /\ wlog = <<>> /\ lastRead = "none")
    /\ [][BusStep =>
             /\ live = {InputHandle, OutputHandle}
             /\ cleared[InputHandle] = 0 /\ cleared[OutputHandle] = 0]_vars

\* program2.c has run a whole scan cycle, been stopped, and released both
\* tasks once.
TasksHeldWhileUsedWitness ==
    /\ mainpc = "exit"
    /\ exitCode = <<0>>
    /\ live = {}
    /\ cleared[InputHandle] = 1 /\ cleared[OutputHandle] = 1
    /\ Len(wlog) = CycleLength
    /\ lastRead = "ok"

\* C20: when runAcquisition of program.c has returned, with 0 or with the
\* code of a failing call, and every write it issued went through, the
\* values last written are reset = 0 and clock = 0.
ReturnsWithLinesLow ==
    pc \in {"display", "acq_error"} /\ ~writeFailed => LastWritten = <<0, 0>>

====
